---- MODULE Spec2Model ----
(***************************************************************************)
(* express-mvc-router: route synthesis from controller definitions, the    *)
(* per-loader cache of context-wrapper types, and per-request dispatch     *)
(* with the convention-based render helper (src/index.js).                 *)
(*                                                                         *)
(* JavaScript strings are sequences of one-character strings, so that the  *)
(* regular expressions of the source are modelled by what they match.      *)
(* An optional JavaScript value (null / undefined) is <<>>, a present      *)
(* value x is <<x>>.                                                       *)
(***************************************************************************)
EXTENDS Naturals, Sequences, FiniteSets

VARIABLES rawName, resolved, dir, loader, classesLoaded, routes, ctx, shared, renderCalls

vars == <<rawName, resolved, dir, loader, classesLoaded, routes, ctx, shared, renderCalls>>

(***************************************************************************)
(* Bounds of the model.                                                    *)
(***************************************************************************)
\* leading / trailing blanks tried around a raw action name
MaxPad == 1
\* controller files in the controller directory
MaxFiles == 1
\* ExpressMVCRouter objects constructed in the process
NumLoaders == 2
\* requests in flight
MaxRequests == 2

(***************************************************************************)
(* Characters and the string primitives the source uses.                   *)
(***************************************************************************)
Upper == <<"A","B","C","D","E","F","G","H","I","J","K","L","M",
           "N","O","P","Q","R","S","T","U","V","W","X","Y","Z">>

Lower == <<"a","b","c","d","e","f","g","h","i","j","k","l","m",
           "n","o","p","q","r","s","t","u","v","w","x","y","z">>

Digits == {"0","1","2","3","4","5","6","7","8","9"}

Range(s) == {s[i] : i \in 1..Len(s)}

\* Op applied to the value of e: e is evaluated once, as an argument of a
\* JavaScript call is
With(e, Op(_)) == CHOOSE y \in {Op(x) : x \in {e}} : TRUE

\* the class \w
WordChars == Range(Upper) \cup Range(Lower) \cup Digits \cup {"_"}

\* the class \s
SpaceChars == {" ", "\t", "\n"}

\* String.prototype.toLowerCase on one character
ToLowerChar(c) ==
    IF \E i \in 1..Len(Upper) : Upper[i] = c
    THEN Lower[CHOOSE i \in 1..Len(Upper) : Upper[i] = c]
    ELSE c

ToLowerCase(s) == With(s, LAMBDA t : [i \in 1..Len(t) |-> ToLowerChar(t[i])])

\* s.substr(n), 0-based n
Substr(s, n) == SubSeq(s, n + 1, Len(s))

\* whether literal lit occurs in s at (1-based) position i
StartsWithAt(s, i, lit) ==
    /\ i + Len(lit) - 1 <= Len(s)
    /\ SubSeq(s, i, i + Len(lit) - 1) = lit

\* the same, ignoring case (the i flag); lit is lower case
StartsWithAtI(s, i, lit) ==
    /\ i + Len(lit) - 1 <= Len(s)
    /\ ToLowerCase(SubSeq(s, i, i + Len(lit) - 1)) = lit

\* first position >= i whose character is outside class C (Len(s)+1 if none):
\* where a greedy C* started at i stops
SkipWhile(s, i, C) ==
    CHOOSE j \in i..(Len(s) + 1) :
        /\ \A k \in i..(j - 1) : s[k] \in C
        /\ j = Len(s) + 1 \/ s[j] \notin C

\* last position <= i whose character is outside class C (0 if none)
SkipBack(s, i, C) ==
    CHOOSE j \in 0..i :
        /\ \A k \in (j + 1)..i : s[k] \in C
        /\ j = 0 \/ s[j] \notin C

\* s.replace(/^\s+|\s+$/g, '') and String.prototype.trim
Trim(s) ==
    With(s, LAMBDA t :
        SubSeq(t, SkipWhile(t, 1, SpaceChars), SkipBack(t, Len(t), SpaceChars)))

Min(S) == CHOOSE x \in S : \A y \in S : x <= y

\* parts joined with the separator sep
RECURSIVE JoinWith(_, _)
JoinWith(parts, sep) ==
    IF parts = <<>> THEN <<>>
    ELSE IF Len(parts) = 1 THEN parts[1]
    ELSE parts[1] \o sep \o JoinWith(Tail(parts), sep)

(***************************************************************************)
(* Words of the source.                                                    *)
(***************************************************************************)
W_get == <<"g","e","t">>
W_post == <<"p","o","s","t">>
W_put == <<"p","u","t">>
W_patch == <<"p","a","t","c","h">>
W_delete == <<"d","e","l","e","t","e">>
W_index == <<"i","n","d","e","x">>
W_default == <<"d","e","f","a","u","l","t">>
W_constructor == <<"c","o","n","s","t","r","u","c","t","o","r">>
W_controller == <<"c","o","n","t","r","o","l","l","e","r">>
W_ctrl == <<"c","t","r","l">>
W_dotjs == <<".","j","s">>
W_function == <<"f","u","n","c","t","i","o","n">>

\* controller file paths, as path.relative gives them
P_homeController_js == <<"h","o","m","e","C","o","n","t","r","o","l","l","e","r",".","j","s">>
P_userController_js == <<"u","s","e","r","C","o","n","t","r","o","l","l","e","r",".","j","s">>
P_projectCtrl_js == <<"p","r","o","j","e","c","t","C","t","r","l",".","j","s">>
P_defaultController_js == <<"d","e","f","a","u","l","t","C","o","n","t","r","o","l","l","e","r",".","j","s">>
P_admin_userController_js == <<"a","d","m","i","n","/","u","s","e","r","C","o","n","t","r","o","l","l","e","r",".","j","s">>
P_admin_homeController_js == <<"a","d","m","i","n","\\","h","o","m","e","C","o","n","t","r","o","l","l","e","r",".","j","s">>
P_controller_js == <<"c","o","n","t","r","o","l","l","e","r",".","j","s">>
P_notes_md == <<"n","o","t","e","s",".","m","d">>
P_HOMECONTROLLER_JS == <<"H","O","M","E","C","O","N","T","R","O","L","L","E","R",".","J","S">>
P_home_js == <<"h","o","m","e",".","j","s">>

\* action names
A_getSomething == <<"g","e","t","S","o","m","e","t","h","i","n","g">>
A_someAction == <<"s","o","m","e","A","c","t","i","o","n">>
A_getWithParameters == <<"g","e","t","W","i","t","h","P","a","r","a","m","e","t","e","r","s">>
A_someHiddenMethod == <<"_","s","o","m","e","H","i","d","d","e","n","M","e","t","h","o","d">>
A_getUser == <<"g","e","t","U","s","e","r">>
A_load == <<"_","l","o","a","d">>
A_title == <<"t","i","t","l","e">>
A_search == <<"s","e","a","r","c","h">>
A_list == <<"l","i","s","t">>
A_deleteItem == <<"d","e","l","e","t","e","I","t","e","m">>
A_getIndex == <<"g","e","t","I","n","d","e","x">>
A_find == <<"f","i","n","d">>
A_sum == <<"s","u","m">>
A_postUser == <<"p","o","s","t","U","s","e","r">>
A_helper == <<"h","e","l","p","e","r">>

\* parameter names, view names, data values
N_foo == <<"f","o","o">>
N_bar == <<"b","a","r">>
N_userId == <<"u","s","e","r","I","d">>
N_id == <<"i","d">>
N_rev == <<"r","e","v">>
N_name == <<"n","a","m","e">>
N_x == <<"x">>
N_a == <<"a">>
N_b == <<"b">>
V_customView == <<"c","u","s","t","o","m","V","i","e","w">>
V_mine == <<"m","i","n","e">>
V_act == <<"a","c","t">>

(***************************************************************************)
(* constructor: the two method patterns.                                   *)
(***************************************************************************)
\* /^(get|post|put|patch|delete)/ : the alternatives, in order
implicitMethodPattern == <<W_get, W_post, W_put, W_patch, W_delete>>

\* /^\{\s*(GET|POST|PUT|DELETE|PATCH)\s*\}\s*/ : the alternatives, in order
explicitMethodPattern ==
    << <<"G","E","T">>, <<"P","O","S","T">>, <<"P","U","T">>,
       <<"D","E","L","E","T","E">>, <<"P","A","T","C","H">> >>

\* implicitMethodPattern.exec(s): <<>> when there is no match, else <<group 1>>
ImplicitExec(s) ==
    LET hits == {k \in 1..Len(implicitMethodPattern) :
                    StartsWithAt(s, 1, implicitMethodPattern[k])}
    IN  IF hits = {} THEN <<>> ELSE <<implicitMethodPattern[Min(hits)]>>

\* explicitMethodPattern.exec(s)
ExplicitExec(s) ==
    IF ~StartsWithAt(s, 1, <<"{">>) THEN <<>>
    ELSE With(SkipWhile(s, 2, SpaceChars), LAMBDA p :
         With({k \in 1..Len(explicitMethodPattern) :
                 /\ StartsWithAt(s, p, explicitMethodPattern[k])
                 /\ \E q \in {SkipWhile(s, p + Len(explicitMethodPattern[k]), SpaceChars)} :
                        StartsWithAt(s, q, <<"}">>)},
              LAMBDA hits :
                 IF hits = {} THEN <<>> ELSE <<explicitMethodPattern[Min(hits)]>>))

\* the two patterns taken for one another
getMethod_OtherPattern(pathName, isExplicit) ==
    With(IF isExplicit THEN ImplicitExec(pathName) ELSE ExplicitExec(pathName),
         LAMBDA methodMatch :
            IF methodMatch # <<>> /\ methodMatch[1] # <<>>
            THEN ToLowerCase(methodMatch[1])
            ELSE W_get)

getMethod(pathName, isExplicit) ==
    With(IF isExplicit THEN ExplicitExec(pathName) ELSE ImplicitExec(pathName),
         LAMBDA methodMatch :
            IF methodMatch # <<>> /\ methodMatch[1] # <<>>
            THEN ToLowerCase(methodMatch[1])
            ELSE W_get)

\* the path name with the rule for 'index' left out
barePathName_IndexKept(actionName) ==
    With(Trim(actionName), LAMBDA pathName :
    With(ImplicitExec(pathName), LAMBDA m :
        IF m # <<>>
        THEN With(Substr(pathName, Len(m[1])), LAMBDA rest :
                IF rest # <<>>
                THEN <<ToLowerChar(rest[1])>> \o Substr(rest, 1)
                ELSE rest)
        ELSE pathName))

\* setObjectActions / setFunctionActions: the path name of an action before
\* its parameters are appended (the bare action name)
barePathName(actionName) ==
    With(Trim(actionName), LAMBDA trimmed :
    With(IF trimmed = W_index THEN <<>> ELSE trimmed, LAMBDA pathName :
    With(ImplicitExec(pathName), LAMBDA m :
        IF m # <<>>
        THEN With(Substr(pathName, Len(m[1])), LAMBDA rest :
                IF rest # <<>>
                THEN <<ToLowerChar(rest[1])>> \o Substr(rest, 1)
                ELSE rest)
        ELSE pathName)))

\* the resolver of one action name: the verb and the bare action name
resolveAction(actionName) ==
    With(Trim(actionName), LAMBDA pathName :
        [verb |-> getMethod(pathName, FALSE), bare |-> barePathName(actionName)])

(***************************************************************************)
(* Callables.  A function value is what the controller author wrote: its   *)
(* form, name, formal parameters and layout.  FnToString is the text       *)
(* Function.prototype.toString gives back, which is the text as written.   *)
(*   form "function":  function(a, b) { }                                  *)
(*   form "named":     function name(a, b) { }                             *)
(*   form "method":    name(a, b) { }       (class or shorthand method)    *)
(*   form "arrow":     (a, b) => 0                                         *)
(*   form "bare":      a => 0               (exactly one parameter)        *)
(* gap is the text before "(", pad the text inside each parenthesis, sep   *)
(* the text between two parameters.                                        *)
(***************************************************************************)
Fn(form, name, params, gap, pad, sep) ==
    [form |-> form, name |-> name, params |-> params, gap |-> gap, pad |-> pad, sep |-> sep]

FnToString(fn) ==
    LET inner == IF fn.params = <<>> THEN fn.pad
                 ELSE fn.pad \o JoinWith(fn.params, fn.sep) \o fn.pad
        list == <<"(">> \o inner \o <<")">>
        body == <<" ","{"," ","}">>
        arrow == <<" ","=",">"," ","0">>
    IN  CASE fn.form = "function" -> W_function \o fn.gap \o list \o body
          [] fn.form = "named" -> W_function \o <<" ">> \o fn.name \o fn.gap \o list \o body
          [] fn.form = "method" -> fn.name \o fn.gap \o list \o body
          [] fn.form = "arrow" -> list \o arrow
          [] OTHER -> fn.params[1] \o arrow

\* where /^(\s*function\s+)?(?:\w*\s*)?\(/ finds its "(" in src: 0 when it
\* does not match.  The optional first group is tried first, then skipped.
\* where \w*\s* started at position i stops
SkipNameAndBlanks(src, i) ==
    With(SkipWhile(src, i, WordChars), LAMBDA j : SkipWhile(src, j, SpaceChars))

SignatureOpen(src) ==
    LET IsOpen(i) == i >= 1 /\ i <= Len(src) /\ src[i] = "("
    IN  With(SkipWhile(src, 1, SpaceChars), LAMBDA p :
        With(p + Len(W_function), LAMBDA q :
        With(IF /\ StartsWithAt(src, p, W_function)
                /\ q <= Len(src)
                /\ src[q] \in SpaceChars
             THEN With(SkipWhile(src, q, SpaceChars), LAMBDA r : SkipNameAndBlanks(src, r))
             ELSE 0,
             LAMBDA withFunction :
        With(SkipNameAndBlanks(src, 1), LAMBDA without :
            IF IsOpen(withFunction) THEN withFunction
            ELSE IF IsOpen(without) THEN without
            ELSE 0))))

\* where (.*?)\) closes after the "(" at open: the first ")" with no line
\* break before it, 0 when there is none
SignatureClose(src, open) ==
    With({k \in (open + 1)..Len(src) :
            /\ src[k] = ")"
            /\ \A j \in (open + 1)..(k - 1) : src[j] # "\n"},
         LAMBDA closes : IF closes = {} THEN 0 ELSE Min(closes))

\* s.split(/\s*,\s*/)
RECURSIVE SplitCommas(_)
SplitCommas(s) ==
    With({i \in 1..Len(s) : s[i] = ","}, LAMBDA commas :
        IF commas = {} THEN <<s>>
        ELSE With(Min(commas), LAMBDA c :
             With(SkipBack(s, c - 1, SpaceChars), LAMBDA from :
             With(SkipWhile(s, c + 1, SpaceChars), LAMBDA to :
             With(SubSeq(s, to, Len(s)), LAMBDA rest :
                <<SubSeq(s, 1, from)>> \o SplitCommas(rest))))))

\* <<>> for null, else <<the array of names>>
getParameterNames(fn) ==
    With(FnToString(fn), LAMBDA src :
    With(SignatureOpen(src), LAMBDA open :
    With(IF open = 0 THEN 0 ELSE SignatureClose(src, open), LAMBDA close :
        IF open = 0 \/ close = 0 THEN <<>>
        ELSE With(SubSeq(src, open + 1, close - 1), LAMBDA group2 :
                IF group2 # <<>>
                THEN With(Trim(group2), LAMBDA trimmed : <<SplitCommas(trimmed)>>)
                ELSE << <<>> >>))))

(***************************************************************************)
(* Controller files.                                                       *)
(***************************************************************************)
\* str.replace(c, d) with a string pattern: the first occurrence only
ReplaceFirstChar(s, c, d) ==
    With({i \in 1..Len(s) : s[i] = c}, LAMBDA at :
        IF at = {} THEN s
        ELSE With(Min(at), LAMBDA first :
                [i \in 1..Len(s) |-> IF i = first THEN d ELSE s[i]]))

\* path.extname: from the last "." of the last path segment, "" when there
\* is none or the segment starts with it
Max(S) == CHOOSE x \in S : \A y \in S : y <= x

ExtName(p) ==
    With({i \in 1..Len(p) : p[i] = "/"}, LAMBDA seps :
    With(IF seps = {} THEN 1 ELSE Max(seps) + 1, LAMBDA start :
    With({i \in start..Len(p) : p[i] = "."}, LAMBDA dots :
        IF dots = {} \/ Max(dots) = start THEN <<>> ELSE SubSeq(p, Max(dots), Len(p)))))

\* length of the match of /(controller|ctrl)?\.js/i at position i of s, 0 if none
SuffixMatchLen(s, i) ==
    IF StartsWithAtI(s, i, W_controller \o W_dotjs) THEN Len(W_controller) + Len(W_dotjs)
    ELSE IF StartsWithAtI(s, i, W_ctrl \o W_dotjs) THEN Len(W_ctrl) + Len(W_dotjs)
    ELSE IF StartsWithAtI(s, i, W_dotjs) THEN Len(W_dotjs)
    ELSE 0

getControllerData(controller, fileName) ==
    With({i \in 1..Len(fileName) : SuffixMatchLen(fileName, i) > 0}, LAMBDA at :
    With(IF at = {} THEN fileName
         ELSE With(Min(at), LAMBDA i :
                SubSeq(fileName, 1, i - 1)
                  \o SubSeq(fileName, i + SuffixMatchLen(fileName, i), Len(fileName))),
         LAMBDA controllerName :
            [controllerDef |-> controller,
             controllerName |-> controllerName,
             viewBaseName |-> controllerName]))

(***************************************************************************)
(* Route synthesis.  A controller instance is identified by the file that  *)
(* exports it and, for a class, by the loader that constructed it          *)
(* (owner 0: the exported object itself, which require() gives to every    *)
(* loader).  st is the pair the registrations thread through: the          *)
(* loader's classesLoaded and the stack of the router.                     *)
(***************************************************************************)
\* routeData[1].replace(/^\/+/, '')
StripLeadingSlashes(s) == With(s, LAMBDA t : SubSeq(t, SkipWhile(t, 1, {"/"}), Len(t)))

\* addRoute without the look-up in classesLoaded: a wrapper type per route
addRoute_NoCache(st, l, routeData) ==
    With([loader |-> l,
          serial |-> Len(st.classesLoaded) + 1,
          prototype |-> routeData.instance,
          routeData6 |-> routeData.controllerName],
         LAMBDA controllerClass :
        [classesLoaded |->
            Append(st.classesLoaded,
                   [instance |-> routeData.instance, controller |-> controllerClass]),
         stack |->
            Append(st.stack,
                   [method |-> routeData.method,
                    path |-> <<"/">> \o StripLeadingSlashes(routeData.pathName),
                    handle |-> [routeData |-> routeData,
                                controllerClass |-> controllerClass]])])

\* addRoute(...routeData) of loader l
addRoute(st, l, routeData) ==
    With(SelectSeq(st.classesLoaded, LAMBDA item : item.instance = routeData.instance),
         LAMBDA loadedClass :
    With(IF loadedClass # <<>>
         THEN loadedClass[1].controller
         ELSE [loader |-> l,
               serial |-> Len(st.classesLoaded) + 1,
               prototype |-> routeData.instance,
               routeData6 |-> routeData.controllerName],
         LAMBDA controllerClass :
        [classesLoaded |->
            IF loadedClass # <<>>
            THEN st.classesLoaded
            ELSE Append(st.classesLoaded,
                        [instance |-> routeData.instance, controller |-> controllerClass]),
         stack |->
            Append(st.stack,
                   [method |-> routeData.method,
                    path |-> <<"/">> \o StripLeadingSlashes(routeData.pathName),
                    handle |-> [routeData |-> routeData,
                                controllerClass |-> controllerClass]])]))

\* for (i...) pathName += (pathName ? '/' : '') + ':' + args[i]
RECURSIVE appendArgs(_, _)
appendArgs(pathName, args) ==
    IF args = <<>> THEN pathName
    ELSE With(pathName \o (IF pathName # <<>> THEN <<"/">> ELSE <<>>)
                       \o <<":">> \o Head(args),
              LAMBDA longer : appendArgs(longer, Tail(args)))

\* the controller name left as it is, where "default" should become ''
normalizedControllerName_Raw(controllerData) == controllerData.controllerName

\* controllerData.controllerName == 'default' ? "" : controllerData.controllerName
normalizedControllerName(controllerData) ==
    IF controllerData.controllerName = W_default
    THEN <<>>
    ELSE controllerData.controllerName

\* the loop body of setObjectActions and of setFunctionActions up to the call
\* of addRoute: the seven values setFunctionActions passes
actionRouteData(controllerData, instance, actionName, fn) ==
    With(Trim(actionName), LAMBDA trimmed :
    With(getMethod(trimmed, FALSE), LAMBDA method :
    With(barePathName(actionName), LAMBDA bare :
    With(getParameterNames(fn), LAMBDA args :
    With(IF args # <<>> THEN appendArgs(bare, args[1]) ELSE bare, LAMBDA pathName :
    With(normalizedControllerName(controllerData), LAMBDA controllerName :
        [method |-> method,
         pathName |-> controllerName
                        \o (IF pathName # <<>> THEN <<"/">> \o pathName ELSE <<>>),
         viewBaseName |-> controllerData.viewBaseName,
         actionName |-> actionName,
         args |-> args,
         instance |-> instance,
         controllerName |-> <<controllerName>>]))))))

\* the test without the check of the first character
isAction_UnderscoreAllowed(prop) == prop.value # <<>>

\* typeof instance[actionName] === 'function' && actionName.charAt(0) !== '_'
isAction(prop) ==
    /\ prop.value # <<>>
    /\ ~(prop.name # <<>> /\ prop.name[1] = "_")

\* one turn of the for-in loop: addRoute is called with six arguments, so
\* that routeData[6] is undefined
objectAction(st, l, controllerData, instance, prop) ==
    IF isAction(prop)
    THEN With(actionRouteData(controllerData, instance, prop.name, prop.value[1]),
              LAMBDA d : addRoute(st, l, [d EXCEPT !.controllerName = <<>>]))
    ELSE st

RECURSIVE setObjectActionsFrom(_, _, _, _, _)
setObjectActionsFrom(st, l, controllerData, instance, props) ==
    IF props = <<>> THEN st
    ELSE With(objectAction(st, l, controllerData, instance, Head(props)),
              LAMBDA next :
                 setObjectActionsFrom(next, l, controllerData, instance, Tail(props)))

\* the loop over every own property, enumerable or not
setObjectActions_OwnNames(st, l, controllerData, instance, allActions) ==
    setObjectActionsFrom(st, l, controllerData, instance, allActions)

\* for (let actionName in allActions): the enumerable properties, in order
setObjectActions(st, l, controllerData, instance, allActions) ==
    With(SelectSeq(allActions, LAMBDA prop : prop.enumerable), LAMBDA props :
        setObjectActionsFrom(st, l, controllerData, instance, props))

\* one turn of the for-of loop: addRoute is called with seven arguments
functionAction(st, l, controllerData, instance, prop) ==
    IF isAction(prop)
    THEN With(actionRouteData(controllerData, instance, prop.name, prop.value[1]),
              LAMBDA d : addRoute(st, l, d))
    ELSE st

RECURSIVE setFunctionActions(_, _, _, _, _)
setFunctionActions(st, l, controllerData, instance, allActions) ==
    IF allActions = <<>> THEN st
    ELSE With(functionAction(st, l, controllerData, instance, Head(allActions)),
              LAMBDA next :
                 setFunctionActions(next, l, controllerData, instance, Tail(allActions)))

\* controllerData.controllerDef is the export of file f
loadImplicitRoutes(st, l, controllerData, f) ==
    With(controllerData.controllerDef, LAMBDA controller :
        IF controller.kind = "object"
        THEN setObjectActions(st, l, controllerData, [file |-> f, owner |-> 0],
                              controller.props)
        ELSE With(SelectSeq(controller.props,
                            LAMBDA x : x.name # W_constructor
                                         /\ ~(x.name # <<>> /\ x.name[1] = "_")),
                  LAMBDA allActions :
                     setFunctionActions(st, l, controllerData, [file |-> f, owner |-> l],
                                        allActions)))

(***************************************************************************)
(* The controller directory.  A property of an exported object, or of a    *)
(* class prototype, has a name, a value (<<fn>> for a function, <<>> for   *)
(* anything else) and its enumerable attribute.                            *)
(***************************************************************************)
Prop(name, value, enumerable) == [name |-> name, value |-> value, enumerable |-> enumerable]

\* function() { }   and   function(foo, bar) { }
Plain(params) == <<Fn("function", <<>>, params, <<>>, <<>>, <<",", " ">>)>>

\* name(a, b) { }
Method(name, params) == <<Fn("method", name, params, <<>>, <<>>, <<",", " ">>)>>

\* the object controller of the README
D_home ==
    [kind |-> "object",
     props |-> << Prop(W_index, Plain(<<>>), TRUE),
                  Prop(A_getSomething, Plain(<<>>), TRUE),
                  Prop(A_someHiddenMethod, Plain(<<>>), TRUE),
                  Prop(A_getWithParameters, Plain(<<N_foo, N_bar>>), TRUE) >>]

\* the class controller of the README
D_user ==
    [kind |-> "class",
     props |-> << Prop(W_constructor, Method(W_constructor, <<>>), FALSE),
                  Prop(W_index, Method(W_index, <<>>), FALSE),
                  Prop(A_getUser, Method(A_getUser, <<N_userId>>), FALSE),
                  Prop(A_load, Method(A_load, <<N_id>>), FALSE) >>]

\* { search: function search( name ) { }, list: function ( ) { }, title: '...' }
\* and a function property defined as not enumerable
D_project ==
    [kind |-> "object",
     props |-> << Prop(A_search, <<Fn("named", A_search, <<N_name>>, <<>>, <<" ">>, <<",", " ">>)>>, TRUE),
                  Prop(A_list, <<Fn("function", <<>>, <<>>, <<" ">>, <<" ">>, <<",", " ">>)>>, TRUE),
                  Prop(A_title, <<>>, TRUE),
                  Prop(A_helper, Plain(<<>>), FALSE) >>]

\* class { constructor() { } get() { } post() { } deleteItem (id,rev) { } getIndex() { } }
D_rest ==
    [kind |-> "class",
     props |-> << Prop(W_constructor, Method(W_constructor, <<>>), FALSE),
                  Prop(W_get, Method(W_get, <<>>), FALSE),
                  Prop(W_post, Method(W_post, <<>>), FALSE),
                  Prop(A_deleteItem, <<Fn("method", A_deleteItem, <<N_id, N_rev>>, <<" ">>, <<>>, <<",">>)>>, FALSE),
                  Prop(A_getIndex, Method(A_getIndex, <<>>), FALSE) >>]

\* { constructor: function() { }, find: x => 0, sum: ( a , b ) => 0,
\*   ' postUser ': function() { } } and a function property defined as not
\* enumerable
D_odd ==
    [kind |-> "object",
     props |-> << Prop(W_constructor, Plain(<<>>), TRUE),
                  Prop(A_find, <<Fn("bare", <<>>, <<N_x>>, <<>>, <<>>, <<>>)>>, TRUE),
                  Prop(A_sum, <<Fn("arrow", <<>>, <<N_a, N_b>>, <<>>, <<" ">>, <<" ", ",", " ">>)>>, TRUE),
                  Prop(<<" ">> \o A_postUser \o <<" ">>, Plain(<<>>), TRUE),
                  Prop(A_helper, Plain(<<>>), FALSE) >>]

\* module.exports = null
D_none == [kind |-> "none", props |-> <<>>]

File(path, exports) == [path |-> path, exports |-> exports]

\* the files a controller directory may hold
Files ==
    << File(P_homeController_js, D_home),
       File(P_userController_js, D_user),
       File(P_projectCtrl_js, D_project),
       File(P_defaultController_js, D_home),
       File(P_admin_userController_js, D_rest),
       File(P_admin_homeController_js, D_user),
       File(P_controller_js, D_odd),
       File(P_notes_md, D_home),
       File(P_HOMECONTROLLER_JS, D_home),
       File(P_home_js, D_none),
       File(P_userController_js, D_odd),
       File(P_defaultController_js, D_rest) >>

\* what the directory walker may return: up to n files of different paths,
\* in any order
RECURSIVE Listings(_)
Listings(n) ==
    IF n = 0 THEN {<<>>}
    ELSE LET shorter == Listings(n - 1)
         IN  shorter \cup
             {Append(d, f) : d \in shorter, f \in 1..Len(Files)}

Dirs ==
    {d \in Listings(MaxFiles) :
        \A i, j \in 1..Len(d) : i # j => Files[d[i]].path # Files[d[j]].path}

\* the forEach of the callback of recursive(): every file, in order
RECURSIVE loadFiles(_, _, _)
loadFiles(st, l, files) ==
    IF files = <<>> THEN st
    ELSE With(Head(files), LAMBDA f :
         With(ReplaceFirstChar(Files[f].path, "\\", "/"), LAMBDA relativePath :
         With(IF ExtName(relativePath) = W_dotjs /\ Files[f].exports.kind # "none"
              THEN With(getControllerData(Files[f].exports, relativePath),
                        LAMBDA controllerData :
                           loadImplicitRoutes(st, l, controllerData, f))
              ELSE st,
              LAMBDA loaded : loadFiles(loaded, l, Tail(files)))))

(***************************************************************************)
(* Raw action names tried by the naming specification.                     *)
(***************************************************************************)
NamePrefixes ==
    { <<>>, W_get, W_post, W_put, W_patch, W_delete,
      <<"G","e","t">>, <<"G","E","T">>, <<"P","o","s","t">>, <<"D","e","l","e","t","e">>,
      <<"p","u">>, <<"g","e">> }

NameStems ==
    { <<>>, <<"U","s","e","r">>, <<"u","s","e","r">>, <<"I","n","d","e","x">>, W_index,
      <<"S">>, <<"t","e","r">>, <<"A","l","l","_","2">>, <<"G","e","t">>, W_get }

Blanks(n) == [i \in 1..n |-> " "]

RawNames ==
    { Blanks(a) \o p \o s \o Blanks(b) :
        p \in NamePrefixes, s \in NameStems, a \in 0..MaxPad, b \in 0..MaxPad }

\* the names the resolver is applied to: those that are not hidden
IsHidden(actionName) == actionName # <<>> /\ actionName[1] = "_"

(***************************************************************************)
(* State.                                                                  *)
(*   rawName, resolved  the input and the result of the naming resolver    *)
(*   dir                the files the directory walker returns             *)
(*   loader[l]          "new", "walking", "loaded" or "failed"             *)
(*   classesLoaded[l]   this.classesLoaded of loader l                     *)
(*   routes             the stack of the router all loaders share          *)
(*   ctx[r]             the context of request r while it is in flight     *)
(*   shared             properties written on controller instances         *)
(*   renderCalls        the call of render made by the latest step and     *)
(*                      what it passed to the renderer of the response     *)
(***************************************************************************)
Loaders == 1..NumLoaders

Requests == 1..MaxRequests

\* the requests that expose req.flash
FlashRequests == {r \in Requests : r % 2 = 1}

InitRouter ==
    /\ loader = [l \in Loaders |-> "new"]
    /\ classesLoaded = [l \in Loaders |-> <<>>]
    /\ routes = <<>>
    /\ ctx = [r \in Requests |-> <<>>]
    /\ shared = {}
    /\ renderCalls = <<>>

(***************************************************************************)
(* load and the callback of the directory walk.                            *)
(***************************************************************************)
\* load(): loadControllers starts the walk and the router is returned
load(l) ==
    /\ loader[l] = "new"
    /\ loader' = [loader EXCEPT ![l] = "walking"]
    /\ UNCHANGED <<rawName, resolved, dir, classesLoaded, routes, ctx, shared>>
    /\ renderCalls' = <<>>

\* the callback of recursive() with the files
loadControllers(l) ==
    /\ loader[l] = "walking"
    /\ \E st \in {loadFiles([classesLoaded |-> classesLoaded[l], stack |-> routes], l, dir)} :
           /\ classesLoaded' = [classesLoaded EXCEPT ![l] = st.classesLoaded]
           /\ routes' = st.stack
    /\ loader' = [loader EXCEPT ![l] = "loaded"]
    /\ UNCHANGED <<rawName, resolved, dir, ctx, shared>>
    /\ renderCalls' = <<>>

\* the callback of recursive() with an error: if (err) throw err
walkError(l) ==
    /\ loader[l] = "walking"
    /\ loader' = [loader EXCEPT ![l] = "failed"]
    /\ UNCHANGED <<rawName, resolved, dir, classesLoaded, routes, ctx, shared>>
    /\ renderCalls' = <<>>

(***************************************************************************)
(* Dispatch.  Request r stands for its req, res and next.                  *)
(***************************************************************************)
\* the names the router captures for a path: its ":name" segments
RECURSIVE Segments(_)
Segments(path) ==
    LET slashes == {i \in 1..Len(path) : path[i] = "/"}
    IN  IF slashes = {} THEN <<path>>
        ELSE <<SubSeq(path, 1, Min(slashes) - 1)>>
                \o Segments(SubSeq(path, Min(slashes) + 1, Len(path)))

CaptureNames(path) ==
    {Tail(seg) : seg \in {x \in Range(Segments(path)) : Len(x) > 1 /\ x[1] = ":"}}

\* req.params[arg] of request r matched by a route of that path
ReqParam(r, path, arg) ==
    IF arg \in CaptureNames(path) THEN <<[capturedBy |-> r, name |-> arg]>> ELSE <<>>

\* req, res and next assigned on the controller instance, not on a new object
newContext_OnInstance(controllerClass, req, res, next, viewBaseName, actionName) ==
    [this |-> [class |-> controllerClass,
               own |-> {},
               closure |-> [res |-> res, viewBaseName |-> viewBaseName,
                            actionName |-> actionName]],
     written |-> {<<controllerClass.prototype, "req", req>>,
                  <<controllerClass.prototype, "res", res>>,
                  <<controllerClass.prototype, "next", next>>}]

\* new controllerClass(req, res, next, method, pathName, viewBaseName, actionName):
\* the object made, the values its render closes over, and what was written
\* on the controller instance
newContext(controllerClass, req, res, next, viewBaseName, actionName) ==
    [this |-> [class |-> controllerClass,
               own |-> {<<"req", req>>, <<"res", res>>, <<"next", next>>},
               closure |-> [res |-> res, viewBaseName |-> viewBaseName,
                            actionName |-> actionName]],
     written |-> {}]

\* this.<name>: the object's own property, else the one of the controller
\* instance its prototype chain ends in; <<>> when neither has it
GetMember(this, name) ==
    LET own == {e \in this.own : e[1] = name}
        inherited == {e \in shared : e[1] = this.class.prototype /\ e[2] = name}
    IN  IF own # {} THEN <<(CHOOSE e \in own : TRUE)[2]>>
        ELSE IF inherited # {} THEN <<(CHOOSE e \in inherited : TRUE)[3]>>
        ELSE <<>>

\* actionFn: the handler of route i runs for request r
actionFn(r, i) ==
    /\ ctx[r] = <<>>
    /\ i \in 1..Len(routes)
    /\ LET routeData == routes[i].handle.routeData
           names == IF routeData.args # <<>> THEN routeData.args[1] ELSE <<>>
           actionArgs == [k \in 1..Len(names) |-> ReqParam(r, routes[i].path, names[k])]
           made == newContext(routes[i].handle.controllerClass, r, r, r,
                              routeData.viewBaseName, routeData.actionName)
       IN  /\ ctx' = [ctx EXCEPT ![r] =
                        <<[this |-> made.this,
                           route |-> i,
                           called |-> routeData.actionName,
                           arguments |-> actionArgs]>>]
           /\ shared' = {e \in shared :
                            \A w \in made.written : ~(w[1] = e[1] /\ w[2] = e[2])}
                          \cup made.written
    /\ UNCHANGED <<rawName, resolved, dir, loader, classesLoaded, routes>>
    /\ renderCalls' = <<>>

\* the arguments an action may pass to this.render
NoData ==
    [x |-> <<>>, controllerName |-> <<>>, actionName |-> <<>>, session |-> <<>>,
     success |-> <<>>, error |-> <<>>, info |-> <<>>]

StringArg(str) == [type |-> "string", str |-> str, data |-> NoData]

ObjectArg(data) == [type |-> "object", str |-> <<>>, data |-> data]

RenderArguments ==
    { <<>>,
      <<ObjectArg([NoData EXCEPT !.x = <<1>>])>>,
      <<StringArg(V_customView), ObjectArg([NoData EXCEPT !.x = <<1>>])>>,
      <<ObjectArg([NoData EXCEPT !.x = <<1>>, !.controllerName = <<V_mine>>,
                                 !.actionName = <<V_act>>])>>,
      <<StringArg(<<>>)>> }

\* the body of this.render, called on `this` with the arguments a: the calls
\* made to the render of the response
render(this, a) ==
    LET actionName == this.closure.actionName
        isString == a # <<>> /\ a[1].type = "string"
        viewName == IF isString /\ a[1].str # <<>> THEN a[1].str ELSE actionName
        given == IF isString
                 THEN (IF Len(a) >= 2 THEN a[2].data ELSE NoData)
                 ELSE (IF a # <<>> THEN a[1].data ELSE NoData)
        req == GetMember(this, "req")[1]
        Falsy(v) == v = <<>> \/ v[1] = <<>>
        named == [given EXCEPT
                    !.controllerName = IF Falsy(given.controllerName)
                                       THEN this.class.routeData6
                                       ELSE given.controllerName,
                    !.actionName = IF Falsy(given.actionName)
                                   THEN <<actionName>> ELSE given.actionName,
                    !.session = IF given.session = <<>>
                                THEN <<[sessionOf |-> req]>> ELSE given.session]
        data == IF req \in FlashRequests
                THEN [named EXCEPT !.success = <<[flashOf |-> req, kind |-> "success"]>>,
                                   !.error = <<[flashOf |-> req, kind |-> "error"]>>,
                                   !.info = <<[flashOf |-> req, kind |-> "info"]>>]
                ELSE named
    IN  << [res |-> this.closure.res,
            view |-> this.closure.viewBaseName \o <<"/">> \o viewName,
            data |-> data] >>

\* the action running for request r calls this.render(...a)
callRender(r, a) ==
    /\ ctx[r] # <<>>
    /\ a \in RenderArguments
    /\ renderCalls' = <<[by |-> r, with |-> a, on |-> ctx[r][1],
                         calls |-> render(ctx[r][1].this, a)]>>
    /\ UNCHANGED <<rawName, resolved, dir, loader, classesLoaded, routes, ctx, shared>>

\* the request completes and its context is discarded
finish(r) ==
    /\ ctx[r] # <<>>
    /\ ctx' = [ctx EXCEPT ![r] = <<>>]
    /\ UNCHANGED <<rawName, resolved, dir, loader, classesLoaded, routes, shared>>
    /\ renderCalls' = <<>>

(***************************************************************************)
(* The naming specification: one raw name, resolved once.                  *)
(***************************************************************************)
InitNames ==
    /\ rawName \in {n \in RawNames : n # <<>> /\ ~IsHidden(n)}
    /\ resolved = <<>>
    /\ dir = <<>>
    /\ InitRouter

Resolve ==
    /\ resolved = <<>>
    /\ resolved' = <<resolveAction(rawName)>>
    /\ UNCHANGED <<rawName, dir, loader, classesLoaded, routes, ctx, shared, renderCalls>>

NextNames == Resolve

SpecNames == InitNames /\ [][NextNames]_vars

(***************************************************************************)
(* The loading specification: any directory, every loader.                 *)
(***************************************************************************)
InitLoad ==
    /\ rawName = <<>>
    /\ resolved = <<>>
    /\ dir \in Dirs
    /\ InitRouter

NextLoad ==
    \E l \in Loaders : load(l) \/ loadControllers(l) \/ walkError(l)

SpecLoad == InitLoad /\ [][NextLoad]_vars

(***************************************************************************)
(* The full specification: loading and requests, on the directories of the *)
(* README.  The walk of these directories succeeds: the error thrown from  *)
(* the callback of the walk is uncaught and ends the process, so no        *)
(* request follows it (SpecLoad has that step).                            *)
(***************************************************************************)
ServedDirs == {<<1>>, <<2>>, <<3>>}

Init ==
    /\ rawName = <<>>
    /\ resolved = <<>>
    /\ dir \in ServedDirs
    /\ InitRouter

Next ==
    \/ \E l \in Loaders : load(l) \/ loadControllers(l)
    \/ \E r \in Requests : \E i \in 1..Len(routes) : actionFn(r, i)
    \/ \E r \in Requests : \E a \in RenderArguments : callRender(r, a)
    \/ \E r \in Requests : finish(r)

Spec == Init /\ [][Next]_vars

(***************************************************************************)
(* Properties of the naming resolver (SpecNames).                          *)
(***************************************************************************)
\* s with its first character lower-cased
LowerFirst(s) == IF s = <<>> THEN s ELSE <<ToLowerChar(s[1])>> \o Tail(s)

VerbTokens == {W_get, W_post, W_put, W_patch, W_delete}

\* C1 as stated: a name that starts with a verb token in any letter case
\* resolves to that verb and to the rest with its first character
\* lower-cased; any other name resolves to get and to itself.
C1_AsStated ==
    resolved # <<>> =>
        LET name == Trim(rawName)
            tokens == {t \in VerbTokens : StartsWithAtI(name, 1, t)}
        IN  /\ resolved[1].verb \in VerbTokens
            /\ \A t \in tokens :
                  /\ resolved[1].verb = t
                  /\ resolved[1].bare = LowerFirst(Substr(name, Len(t)))
            /\ tokens = {} => resolved[1].verb = W_get /\ resolved[1].bare = name

\* C1 as amended: the verb token is matched in lower case only, and the
\* name index resolves to the empty bare name.  A name that starts with a
\* lower-case verb token resolves to that verb and to the rest with its
\* first character lower-cased; any other name resolves to get and to
\* itself, index to the empty name.  The verb is always one of the five.
C1_Resolver ==
    resolved # <<>> =>
        LET name == Trim(rawName)
            tokens == {t \in VerbTokens : \E rest \in {Substr(name, Len(t))} : name = t \o rest}
        IN  /\ resolved[1].verb \in VerbTokens
            /\ \A t \in tokens :
                  /\ resolved[1].verb = t
                  /\ resolved[1].bare = LowerFirst(Substr(name, Len(t)))
            /\ tokens = {} =>
                  /\ resolved[1].verb = W_get
                  /\ resolved[1].bare = IF name = W_index THEN <<>> ELSE name

\* postUser has been resolved to (post, user)
C1_Witness ==
    /\ resolved # <<>>
    /\ rawName = A_postUser
    /\ resolved[1].verb = W_post
    /\ resolved[1].bare = <<"u","s","e","r">>

\* C5 as stated: the bare action name is never index, whatever the raw name.
C5_AsStated == resolved # <<>> => resolved[1].bare # W_index

\* C5 as amended: the raw name index resolves to (get, empty); the bare
\* name is index only for a verb token followed by index or Index.
C5_IndexRewritten ==
    resolved # <<>> =>
        /\ Trim(rawName) = W_index =>
              resolved[1].verb = W_get /\ resolved[1].bare = <<>>
        /\ resolved[1].bare = W_index =>
              \E t \in VerbTokens :
                  Trim(rawName) \in {t \o W_index, t \o <<"I","n","d","e","x">>}

\* index, with blanks around it, has been resolved to the empty bare name
C5_Witness ==
    /\ resolved # <<>>
    /\ rawName = <<" ">> \o W_index \o <<" ">>
    /\ resolved[1].bare = <<>>

(***************************************************************************)
(* Properties of route synthesis and of the cache (SpecLoad).              *)
(***************************************************************************)
RouteData(i) == routes[i].handle.routeData

\* the array of parameter names of route i (none when it is null)
RouteParams(i) == IF RouteData(i).args = <<>> THEN <<>> ELSE RouteData(i).args[1]

RouteFile(i) == Files[RouteData(i).instance.file]

\* the relative path of a file with "/" separators
RelativePath(file) == ReplaceFirstChar(file.path, "\\", "/")

\* "/" + the controller name unless empty or default + the bare action name
\* with its capture segments unless empty, joined by "/"
ExpectedPath(controllerName, bare, params) ==
    LET first == IF controllerName = W_default THEN <<>> ELSE controllerName
        second == JoinWith((IF bare # <<>> THEN <<bare>> ELSE <<>>)
                              \o [k \in 1..Len(params) |-> <<":">> \o params[k]],
                           <<"/">>)
    IN  <<"/">> \o JoinWith(SelectSeq(<<first, second>>, LAMBDA x : x # <<>>), <<"/">>)

C3_NoHiddenRoute ==
    \A i \in 1..Len(routes) :
        ~(RouteData(i).actionName # <<>> /\ RouteData(i).actionName[1] = "_")

\* a controller with a hidden function has been loaded, of either variant
C3_Witness ==
    \E i \in 1..Len(routes) :
        \E k \in 1..Len(RouteFile(i).exports.props) :
            /\ RouteFile(i).exports.props[k].value # <<>>
            /\ RouteFile(i).exports.props[k].name[1] = "_"

\* the files of the directory loaded as flat controllers by some loader
FlatLoaded ==
    {f \in Range(dir) :
        /\ Files[f].exports.kind = "object"
        /\ ExtName(RelativePath(Files[f])) = W_dotjs
        /\ \E l \in Loaders : loader[l] = "loaded"}

\* the raw names of the actions of flat controller f that have a route
FlatRouted(f) ==
    {RouteData(i).actionName :
        i \in {j \in 1..Len(routes) : RouteData(j).instance = [file |-> f, owner |-> 0]}}

FlatProps(f) == Range(Files[f].exports.props)

\* C9 as stated: the routed actions of a flat controller are its enumerable
\* function-valued properties but constructor and the hidden names.
C9_AsStated ==
    \A f \in FlatLoaded :
        FlatRouted(f) =
            {p.name : p \in {q \in FlatProps(f) :
                /\ q.enumerable
                /\ q.value # <<>>
                /\ q.name # W_constructor
                /\ q.name[1] # "_"}}

\* C9 as amended: the routed actions of a flat controller are its
\* enumerable function-valued properties but the hidden names; a function
\* named constructor has a route.
C9_FlatEligibility ==
    \A f \in FlatLoaded :
        FlatRouted(f) =
            {p.name : p \in {q \in FlatProps(f) :
                /\ q.enumerable
                /\ q.value # <<>>
                /\ q.name[1] # "_"}}

\* a flat controller with a function named constructor has been loaded
C9_Witness ==
    \E f \in FlatLoaded :
        /\ W_constructor \in FlatRouted(f)
        /\ \E p \in FlatProps(f) : ~p.enumerable /\ p.name \notin FlatRouted(f)

CacheEntries(l) == Range(classesLoaded[l])

RoutesOf(l) == {i \in 1..Len(routes) : routes[i].handle.controllerClass.loader = l}

ActionFn(f, actionName) ==
    (CHOOSE p \in Range(Files[f].exports.props) : p.name = actionName /\ p.value # <<>>).value[1]

\* the forms whose signature starts with a parenthesised parameter list
Recoverable(fn) == fn.form \in {"function", "named", "method", "arrow"}

\* the parameters an action declares, none when they cannot be recovered
DeclaredParams(i) ==
    LET fn == ActionFn(RouteData(i).instance.file, RouteData(i).actionName)
    IN  IF Recoverable(fn) THEN fn.params ELSE <<>>

\* the capture segments of a path, in order, without their ":"
CaptureSegments(path) ==
    LET caught == SelectSeq(Segments(path), LAMBDA x : x # <<>> /\ x[1] = ":")
    IN  [k \in 1..Len(caught) |-> Tail(caught[k])]

\* C4: the capture segments of every registered path are the declared
\* parameter names of its action, in order, and a dispatched action gets
\* as argument k the value the request captured for parameter k.
C4_AsStated ==
    /\ \A i \in 1..Len(routes) : CaptureSegments(routes[i].path) = DeclaredParams(i)
    /\ \A r \in Requests :
          ctx[r] # <<>> =>
              ctx[r][1].arguments =
                  [k \in 1..Len(DeclaredParams(ctx[r][1].route)) |->
                      <<[capturedBy |-> r, name |-> DeclaredParams(ctx[r][1].route)[k]]>>]

\* the call of render made by the latest step
Rendered == renderCalls[1]

\* the data object the caller of render gave, NoData when it gave none
GivenData(a) ==
    IF a # <<>> /\ a[1].type = "string"
    THEN (IF Len(a) >= 2 THEN a[2].data ELSE NoData)
    ELSE (IF a # <<>> THEN a[1].data ELSE NoData)

\* an action name with its verb prefix stripped
VerbStripped(name) ==
    LET tokens == {t \in VerbTokens : StartsWithAt(name, 1, t)}
    IN  IF tokens = {} THEN name
        ELSE LowerFirst(Substr(name, Len(CHOOSE t \in tokens : TRUE)))

\* C6: render calls the renderer of the response exactly once, with the
\* view viewBaseName/viewName, where viewName is a first argument that is
\* a string and else the bare name of the current action.
C6_AsStated ==
    renderCalls # <<>> =>
        LET a == Rendered.with
            route == RouteData(Rendered.on.route)
            viewName == IF a # <<>> /\ a[1].type = "string"
                        THEN a[1].str
                        ELSE VerbStripped(route.actionName)
        IN  /\ Len(Rendered.calls) = 1
            /\ Rendered.calls[1].view = route.viewBaseName \o <<"/">> \o viewName

\* C7: the data passed to the renderer keeps the fields of the caller and
\* has controllerName (the raw name of the controller), actionName and
\* session filled where the caller gave none.
C7_AsStated ==
    renderCalls # <<>> =>
        LET given == GivenData(Rendered.with)
            route == RouteData(Rendered.on.route)
            rawControllerName ==
                getControllerData(RouteFile(Rendered.on.route).exports,
                                  RelativePath(RouteFile(Rendered.on.route))).controllerName
        IN  \A k \in 1..Len(Rendered.calls) :
                LET data == Rendered.calls[k].data
                IN  /\ data.x = given.x
                    /\ data.controllerName =
                          IF given.controllerName # <<>> THEN given.controllerName
                          ELSE <<rawControllerName>>
                    /\ data.actionName =
                          IF given.actionName # <<>> THEN given.actionName
                          ELSE <<route.actionName>>
                    /\ data.session =
                          IF given.session # <<>> THEN given.session
                          ELSE <<[sessionOf |-> Rendered.by]>>

====
